---- MODULE Spec2Model ----
(***************************************************************************)
(* Model of qualichat/features.py: the table-producing methods of          *)
(* MessagesFeature, ActorsFeature, TimeFeature and EmojisFeature.          *)
(*                                                                         *)
(* A chat is a list of messages and a list of actors.  Every aggregation   *)
(* method is one action: it reads the chat and leaves the table it         *)
(* returns in `dataframe`.  datetime values are records of their fields,   *)
(* strings are TLA+ strings, Python lists are sequences, and an            *)
(* insertion-ordered dict is a sequence of [key, messages] entries.        *)
(***************************************************************************)
EXTENDS Integers, Sequences, FiniteSets, TLC

VARIABLES chat, call, dataframe, globals

vars == <<chat, call, dataframe, globals>>

---------------------------------------------------------------------------
(* Sequence helpers (Python built-ins used by the methods).                *)

RECURSIVE SumSeq(_)
SumSeq(s) == IF s = <<>> THEN 0 ELSE Head(s) + SumSeq(Tail(s))

\* ''.join(obj)
RECURSIVE Join(_)
Join(obj) == IF obj = <<>> THEN "" ELSE Head(obj) \o Join(Tail(obj))

\* variant of get_length: the number of matches, len(obj)
get_length_count(obj) == Len(obj)

\* def get_length(obj): return len(''.join(obj))
get_length(obj) == Len(Join(obj))

\* the module-level lists as the import of the module leaves them:
\* WEEKDAYS, PERIODS = [c.value for c in Period] and
\* SUB_PERIODS = [c.value for c in SubPeriod], the last two in the order of
\* the by_periods and by_sub_periods docstrings
ModuleLists ==
    [ WEEKDAYS    |-> << "Sunday", "Monday", "Tuesday", "Wednesday",
                         "Thursday", "Friday", "Saturday" >>,
      PERIODS     |-> << "Dawn", "Morning", "Evening", "Night" >>,
      SUB_PERIODS |-> << "Resting", "Transport (morning)", "Work (morning)",
                         "Lunch", "Work (evening)", "Transport (evening)",
                         "Second Office Hour" >> ]

\* the module-level lists as a method finds them when it runs
WEEKDAYS == globals.WEEKDAYS

PERIODS == globals.PERIODS

SUB_PERIODS == globals.SUB_PERIODS

\* variant of CopyAppend: columns = lst; columns.append(x), columns is the
\* list lst itself
AliasAppend(lst, x) == [ columns |-> Append(lst, x), source |-> Append(lst, x) ]

\* columns = lst.copy(); columns.append(x): the new list, and the list lst
\* as the two statements leave it
CopyAppend(lst, x) == [ columns |-> Append(lst, x), source |-> lst ]

---------------------------------------------------------------------------
(* datetime.datetime: a record of year, month, day, hour, minute, second,  *)
(* microsecond, with the proleptic Gregorian calendar.                     *)

MonthNames ==
    << "January", "February", "March", "April", "May", "June", "July",
       "August", "September", "October", "November", "December" >>

\* date.weekday() order: Monday is 0
DayNames ==
    << "Monday", "Tuesday", "Wednesday", "Thursday",
       "Friday", "Saturday", "Sunday" >>

IsLeap(y) == (y % 4 = 0) /\ ((y % 100 # 0) \/ (y % 400 = 0))

DaysInMonth(y, m) ==
    IF m = 2 THEN (IF IsLeap(y) THEN 29 ELSE 28)
    ELSE IF m \in {4, 6, 9, 11} THEN 30 ELSE 31

RECURSIVE DaysBeforeMonth(_, _)
DaysBeforeMonth(y, m) ==
    IF m = 1 THEN 0 ELSE DaysBeforeMonth(y, m - 1) + DaysInMonth(y, m - 1)

\* days before January 1st of year y, counted from year 1 (date.toordinal)
DaysBeforeYear(y) ==
    LET p == y - 1 IN p * 365 + (p \div 4) - (p \div 100) + (p \div 400)

\* date.toordinal(): January 1st of year 1 is day 1
ToOrdinal(d) == DaysBeforeYear(d.year) + DaysBeforeMonth(d.year, d.month) + d.day

\* date.weekday(): (toordinal() + 6) % 7, Monday is 0
Weekday(d) == (ToOrdinal(d) + 6) % 7

\* variant of ReplaceDayTime: replace(month=1, day=1, hour=0, minute=0,
\* second=0)
ReplaceMonthDayTime(d) ==
    [d EXCEPT !.month = 1, !.day = 1, !.hour = 0, !.minute = 0, !.second = 0]

\* datetime.replace(day=1, hour=0, minute=0, second=0)
ReplaceDayTime(d) == [d EXCEPT !.day = 1, !.hour = 0, !.minute = 0, !.second = 0]

\* datetime.replace(hour=0, minute=0, second=0)
ReplaceTime(d) == [d EXCEPT !.hour = 0, !.minute = 0, !.second = 0]

\* variant of StrfMonthYear: strftime('%B'), the month name alone
StrfMonthOnly(d) == MonthNames[d.month]

\* strftime('%B %Y'): full month name, a space, the year
StrfMonthYear(d) == MonthNames[d.month] \o " " \o ToString(d.year)

\* strftime('%A'): full weekday name
StrfWeekday(d) == DayNames[Weekday(d) + 1]

\* the whole seconds from datetime b to datetime a, microseconds left out
\* (the ordinals are subtracted first, which keeps the numbers small)
SecondsBetween(a, b) ==
    (ToOrdinal(a) - ToOrdinal(b)) * 86400
        + (a.hour - b.hour) * 3600 + (a.minute - b.minute) * 60
        + (a.second - b.second)

\* a - b for two datetimes: a timedelta, normalised as Python does
\* (0 <= seconds < 86400, 0 <= microseconds < 1000000, days carries the sign)
TimeDelta(a, b) ==
    LET us == a.microsecond - b.microsecond
        s  == SecondsBetween(a, b) - (IF us < 0 THEN 1 ELSE 0)
    IN  [ days         |-> s \div 86400,
          seconds      |-> s % 86400,
          microseconds |-> IF us < 0 THEN us + 1000000 ELSE us ]

\* variant of TotalSecondsLeq: a strict comparison, total_seconds() < n,
\* as the docstrings word the classes ("<30 seconds")
TotalSecondsLess(delta, n) == delta.days * 86400 + delta.seconds < n

\* timedelta.total_seconds() <= n, for a whole number n
TotalSecondsLeq(delta, n) ==
    LET whole == delta.days * 86400 + delta.seconds
    IN  whole < n \/ (whole = n /\ delta.microseconds = 0)

---------------------------------------------------------------------------
(* Messages, actors and chats: the inputs of every method.                 *)

\* the counters of a text-only message
PlainBody ==
    [ Qty_char_net      |-> "hello",
      Qty_char_text     |-> "hello",
      Qty_char_laughs   |-> << >>,
      Qty_char_marks    |-> << >>,
      Qty_char_emoji    |-> << >>,
      Qty_char_numbers  |-> << >>,
      Qty_char_links    |-> << >>,
      Qty_char_emails   |-> << >>,
      Qty_char_mentions |-> << >>,
      Day_period        |-> "Morning",
      Day_sub_period    |-> "Work (morning)" ]
    @@ ("Qty_char_!" :> << >>) @@ ("Qty_char_?" :> << >>)

\* the counters of a message with matches of every aspect; the matched
\* lengths differ from one aspect to the next and from the match counts
RichBody ==
    [ Qty_char_net      |-> "ha!?x",
      Qty_char_text     |-> "ha!",
      Qty_char_laughs   |-> << "haha" >>,
      Qty_char_marks    |-> << "." >>,
      Qty_char_emoji    |-> << ":D", "o" >>,
      Qty_char_numbers  |-> << "4", "2" >>,
      Qty_char_links    |-> << "http://a.io" >>,
      Qty_char_emails   |-> << "a@b.c" >>,
      Qty_char_mentions |-> << "@Bob", "@Cid" >>,
      Day_period        |-> "Night",
      Day_sub_period    |-> "Resting" ]
    @@ ("Qty_char_!" :> << "!!!", "!" >>) @@ ("Qty_char_?" :> << "??" >>)

Bodies == { PlainBody, RichBody }

\* display names, in the order of chat.actors
ActorNames == << "Ana", "Bob", "Cid" >>

DT(y, mo, d, h, mi, s, us) ==
    [ year |-> y, month |-> mo, day |-> d,
      hour |-> h, minute |-> mi, second |-> s, microsecond |-> us ]

\* Sunday 2021-01-31 23:58:00 and the instants 30 s, 30.1 s, 60 s, 120 s
\* and 120.1 s after it (the last two fall on Monday 2021-02-01)
NearStamps ==
    { DT(2021, 1, 31, 23, 58, 0, 0),
      DT(2021, 1, 31, 23, 58, 30, 0),
      DT(2021, 1, 31, 23, 58, 30, 100000),
      DT(2021, 1, 31, 23, 59, 0, 0),
      DT(2021, 2, 1, 0, 0, 0, 0),
      DT(2021, 2, 1, 0, 0, 0, 100000) }

\* two instants of Sunday 2021-01-31 (60 s apart), Monday 2021-02-01 (60 s
\* later) and Friday 2022-01-07: three months, two of them a January
Stamps ==
    { DT(2021, 1, 31, 23, 58, 0, 0),
      DT(2021, 1, 31, 23, 59, 0, 0),
      DT(2021, 2, 1, 0, 0, 0, 0),
      DT(2022, 1, 7, 9, 0, 0, 0) }

\* the instant every message of the actor-table specification carries
OneStamp == { DT(2021, 1, 31, 23, 58, 0, 0) }

MaxMsgs == 3

Message(stamp, actor, body) ==
    body @@ [ created_at |-> stamp, actor |-> actor ]

MessagesOf(stamps, actors, bodies) ==
    { Message(s, a, b) : s \in stamps, a \in actors, b \in bodies }

SeqsUpTo(S, n) == UNION { [1..k -> S] : k \in 0..n }

\* Actor.messages: the messages of the chat sent by the actor, in chat order
ActorMessages(messages, name) ==
    SelectSeq(messages, LAMBDA m : m.actor = name)

\* a Chat as load_chats leaves it: chat.messages and chat.actors
ChatOf(messages) ==
    [ messages |-> messages,
      actors   |-> [ i \in DOMAIN ActorNames |->
                       [ display_name |-> ActorNames[i],
                         messages     |-> ActorMessages(messages, ActorNames[i]) ] ] ]

---------------------------------------------------------------------------
(* dict / defaultdict(list): insertion-ordered entries [key, messages].    *)

HasKey(data, key) == \E j \in DOMAIN data : data[j].key = key

\* variant of DictAppend: data[key] = [message], the list is replaced
DictAssign(data, key, message) ==
    IF HasKey(data, key)
    THEN [ j \in DOMAIN data |->
             IF data[j].key = key
             THEN [ data[j] EXCEPT !.messages = << message >> ]
             ELSE data[j] ]
    ELSE Append(data, [ key |-> key, messages |-> << message >> ])

\* variant of DictAppend: an entry that is appended to moves to the end of
\* the dict
DictAppendLast(data, key, message) ==
    IF HasKey(data, key)
    THEN LET j == CHOOSE j \in DOMAIN data : data[j].key = key
         IN  SelectSeq(data, LAMBDA e : e.key # key)
               \o << [ data[j] EXCEPT !.messages = Append(@, message) ] >>
    ELSE Append(data, [ key |-> key, messages |-> << message >> ])

\* defaultdict(list): data[key].append(message)
DictAppend(data, key, message) ==
    IF HasKey(data, key)
    THEN [ j \in DOMAIN data |->
             IF data[j].key = key
             THEN [ data[j] EXCEPT !.messages = Append(@, message) ]
             ELSE data[j] ]
    ELSE Append(data, [ key |-> key, messages |-> << message >> ])

\* for message in chat.messages: data[keys[i]].append(message)
RECURSIVE GroupLoop(_, _, _, _)
GroupLoop(messages, keys, i, data) ==
    IF i > Len(messages) THEN data
    ELSE GroupLoop(messages, keys, i + 1,
                   DictAppend(data, keys[i], messages[i]))

\* data = defaultdict(list), then the grouping loop
GroupBy(messages, keys) == GroupLoop(messages, keys, 1, << >>)

\* variant of GroupByWeekday: data = defaultdict(list), no preset keys
GroupByWeekdayDefault(messages, keys) == GroupLoop(messages, keys, 1, << >>)

\* data = {w: [] for w in WEEKDAYS}, then the grouping loop
GroupByWeekday(messages, keys) ==
    GroupLoop(messages, keys, 1,
              [ j \in DOMAIN WEEKDAYS |-> [ key |-> WEEKDAYS[j], messages |-> << >> ] ])

\* list(data.keys())
Keys(data) == [ j \in DOMAIN data |-> data[j].key ]

\* sum of F over the messages of a bucket (the accumulation loops)
SumOver(messages, F(_)) == SumSeq([ i \in DOMAIN messages |-> F(messages[i]) ])

\* number of messages of a bucket for which P holds
CountOver(messages, P(_)) ==
    SumSeq([ i \in DOMAIN messages |-> IF P(messages[i]) THEN 1 ELSE 0 ])

\* DataFrame(rows, index=index, columns=columns)
DataFrame(rows, index, columns) ==
    [ index |-> index, columns |-> columns, rows |-> rows ]

---------------------------------------------------------------------------
(* MessagesFeature                                                         *)

\* the key loops: replace(...) then strftime(...), one key per message
MonthKeysDayTime(messages) ==
    [ i \in DOMAIN messages |->
        StrfMonthYear(ReplaceDayTime(messages[i].created_at)) ]

MonthKeysTime(messages) ==
    [ i \in DOMAIN messages |->
        StrfMonthYear(ReplaceTime(messages[i].created_at)) ]

MonthKeysRaw(messages) ==
    [ i \in DOMAIN messages |-> StrfMonthYear(messages[i].created_at) ]

WeekdayKeysTime(messages) ==
    [ i \in DOMAIN messages |->
        StrfWeekday(ReplaceTime(messages[i].created_at)) ]

WeekdayKeysRaw(messages) ==
    [ i \in DOMAIN messages |-> StrfWeekday(messages[i].created_at) ]

\* variant of NetTextCountRow: net_content += len(message['Qty_char_text'])
NetTextCountRowText(messages) ==
    << SumOver(messages, LAMBDA m : Len(m["Qty_char_text"])),
       SumOver(messages, LAMBDA m : Len(m["Qty_char_text"])),
       Len(messages) >>

NetTextCountRow(messages) ==
    << SumOver(messages, LAMBDA m : Len(m["Qty_char_net"])),
       SumOver(messages, LAMBDA m : Len(m["Qty_char_text"])),
       Len(messages) >>

per_month(c) ==
    LET data == GroupBy(c.messages, MonthKeysDayTime(c.messages))
    IN  DataFrame([ j \in DOMAIN data |-> NetTextCountRow(data[j].messages) ],
                  Keys(data),
                  << "Qty_char_net", "Qty_char_text", "Qty_messages" >>)

\* weekdays = {w: 0 for w in WEEKDAYS}; weekdays[strftime('%A')] += 1
WeekdayCounts(messages) ==
    [ j \in DOMAIN WEEKDAYS |->
        CountOver(messages, LAMBDA m : StrfWeekday(m.created_at) = WEEKDAYS[j]) ]

weekdays_per_month(c) ==
    LET data == GroupBy(c.messages, MonthKeysTime(c.messages))
    IN  DataFrame([ j \in DOMAIN data |->
                      WeekdayCounts(data[j].messages)
                        \o << SumOver(data[j].messages,
                                      LAMBDA m : Len(m["Qty_char_net"])) >> ],
                  Keys(data),
                  CopyAppend(WEEKDAYS, "Qty_char_net").columns)

per_weekday(c) ==
    LET data == GroupByWeekday(c.messages, WeekdayKeysTime(c.messages))
    IN  DataFrame([ j \in DOMAIN data |-> NetTextCountRow(data[j].messages) ],
                  Keys(data),
                  << "Qty_char_net", "Qty_char_text", "Qty_messages" >>)

messages_fabrications(c) ==
    LET data == GroupBy(c.messages, MonthKeysDayTime(c.messages))
    IN  DataFrame([ j \in DOMAIN data |->
                      << SumOver(data[j].messages, LAMBDA m : get_length(m["Qty_char_laughs"])),
                         SumOver(data[j].messages, LAMBDA m : get_length(m["Qty_char_marks"])),
                         SumOver(data[j].messages, LAMBDA m : get_length(m["Qty_char_emoji"])),
                         SumOver(data[j].messages, LAMBDA m : get_length(m["Qty_char_numbers"])),
                         Len(data[j].messages) >> ],
                  Keys(data),
                  << "Qty_char_laughs", "Qty_char_marks", "Qty_char_emoji",
                     "Qty_char_numbers", "Qty_messages" >>)

messages_laminations(c) ==
    LET data == GroupBy(c.messages, MonthKeysTime(c.messages))
    IN  DataFrame([ j \in DOMAIN data |->
                      << SumOver(data[j].messages, LAMBDA m : get_length(m["Qty_char_links"])),
                         SumOver(data[j].messages, LAMBDA m : get_length(m["Qty_char_emails"])),
                         SumOver(data[j].messages, LAMBDA m : get_length(m["Qty_char_mentions"])),
                         Len(data[j].messages) >> ],
                  Keys(data),
                  << "Qty_char_links", "Qty_char_emails",
                     "Qty_char_mentions", "Qty_messages" >>)

\* periods = {v: 0 for v in PERIODS}; periods[message['Day_period'].value] += 1
EnumCounts(messages, values, field) ==
    [ j \in DOMAIN values |->
        CountOver(messages, LAMBDA m : m[field] = values[j]) ]

by_periods(c) ==
    LET data == GroupBy(c.messages, MonthKeysDayTime(c.messages))
    IN  DataFrame([ j \in DOMAIN data |->
                      EnumCounts(data[j].messages, PERIODS, "Day_period")
                        \o << Len(data[j].messages) >> ],
                  Keys(data),
                  CopyAppend(PERIODS, "Qty_messages").columns)

by_sub_periods(c) ==
    LET data == GroupBy(c.messages, MonthKeysDayTime(c.messages))
    IN  DataFrame([ j \in DOMAIN data |->
                      EnumCounts(data[j].messages, SUB_PERIODS, "Day_sub_period")
                        \o << Len(data[j].messages) >> ],
                  Keys(data),
                  CopyAppend(SUB_PERIODS, "Qty_messages").columns)

messages_by_punctuation_marks(c) ==
    LET data == GroupBy(c.messages, MonthKeysTime(c.messages))
    IN  DataFrame([ j \in DOMAIN data |->
                      << SumOver(data[j].messages, LAMBDA m : get_length(m["Qty_char_!"])),
                         SumOver(data[j].messages, LAMBDA m : get_length(m["Qty_char_?"])),
                         SumOver(data[j].messages, LAMBDA m : Len(m["Qty_char_text"])),
                         Len(data[j].messages) >> ],
                  Keys(data),
                  << "Qty_char_!", "Qty_char_?", "Qty_char_text", "Qty_messages" >>)

---------------------------------------------------------------------------
(* pandas: DataFrame.sort_values(by=columns, ascending=False) and the      *)
(* positional slice dataframe[start:end].                                  *)

\* row a sorts before row b: greater in the first column where they differ
RowGreater(a, b) ==
    \E j \in DOMAIN a :
        /\ a[j] > b[j]
        /\ \A i \in 1..(j - 1) : a[i] = b[i]

\* variant of InsertSorted: the entry goes before the first entry that is
\* not greater than it, so before every entry equal to it (ties reversed)
InsertBeforeTies(sorted, e) ==
    LET before == { k \in DOMAIN sorted : ~RowGreater(sorted[k].row, e.row) }
        at     == IF before = {} THEN Len(sorted) + 1
                  ELSE CHOOSE k \in before : \A l \in before : k <= l
    IN  SubSeq(sorted, 1, at - 1) \o << e >> \o SubSeq(sorted, at, Len(sorted))

\* the entry goes before the first entry it is greater than, so after
\* every entry equal to it (the lexsort behind sort_values is stable)
InsertSorted(sorted, e) ==
    LET before == { k \in DOMAIN sorted : RowGreater(e.row, sorted[k].row) }
        at     == IF before = {} THEN Len(sorted) + 1
                  ELSE CHOOSE k \in before : \A l \in before : k <= l
    IN  SubSeq(sorted, 1, at - 1) \o << e >> \o SubSeq(sorted, at, Len(sorted))

RECURSIVE SortLoop(_, _, _)
SortLoop(entries, i, sorted) ==
    IF i > Len(entries) THEN sorted
    ELSE SortLoop(entries, i + 1, InsertSorted(sorted, entries[i]))

sort_values(df) ==
    LET entries == [ i \in DOMAIN df.rows |->
                       [ key |-> df.index[i], row |-> df.rows[i] ] ]
        sorted  == SortLoop(entries, 1, << >>)
    IN  DataFrame([ i \in DOMAIN sorted |-> sorted[i].row ],
                  [ i \in DOMAIN sorted |-> sorted[i].key ],
                  df.columns)

\* variant of SliceBound: a bound outside 0..n is clamped to 0..n
SliceBoundClamped(x, n) ==
    IF x < 0 THEN 0 ELSE (IF x > n THEN n ELSE x)

\* slice.indices(): a negative bound counts from the end, and both bounds
\* are clipped to 0..n
SliceBound(x, n) ==
    IF x < 0 THEN (IF n + x < 0 THEN 0 ELSE n + x)
    ELSE (IF x > n THEN n ELSE x)

\* variant of Slice: dataframe[start:end - 1], the last row is left out
SliceShort(df, start, end) ==
    LET n  == Len(df.rows)
        lo == SliceBound(start, n)
        hi == SliceBound(end, n) - 1
    IN  DataFrame(SubSeq(df.rows, lo + 1, hi),
                  SubSeq(df.index, lo + 1, hi),
                  df.columns)

\* dataframe[start:end]
Slice(df, start, end) ==
    LET n  == Len(df.rows)
        lo == SliceBound(start, n)
        hi == SliceBound(end, n)
    IN  DataFrame(SubSeq(df.rows, lo + 1, hi),
                  SubSeq(df.index, lo + 1, hi),
                  df.columns)

---------------------------------------------------------------------------
(* ActorsFeature                                                           *)

\* index = [actor.display_name for actor in chat.actors]
ActorIndex(c) == [ i \in DOMAIN c.actors |-> c.actors[i].display_name ]

\* rows.append([numbers, laughs, marks, emojis, len(actor.messages)])
FabricationsRow(messages) ==
    << SumOver(messages, LAMBDA m : get_length(m["Qty_char_numbers"])),
       SumOver(messages, LAMBDA m : get_length(m["Qty_char_laughs"])),
       SumOver(messages, LAMBDA m : get_length(m["Qty_char_marks"])),
       SumOver(messages, LAMBDA m : get_length(m["Qty_char_emoji"])),
       Len(messages) >>

\* dataframe = DataFrame(rows, index=index, columns=columns), before the sort
actors_fabrications_frame(c) ==
    DataFrame([ i \in DOMAIN c.actors |-> FabricationsRow(c.actors[i].messages) ],
              ActorIndex(c),
              << "Qty_char_numbers", "Qty_char_emoji", "Qty_char_marks",
                 "Qty_char_laughs", "Qty_messages" >>)

actors_fabrications(c, start, end) ==
    Slice(sort_values(actors_fabrications_frame(c)), start, end)

actors_laminations_frame(c) ==
    DataFrame([ i \in DOMAIN c.actors |->
                  << SumOver(c.actors[i].messages, LAMBDA m : get_length(m["Qty_char_links"])),
                     SumOver(c.actors[i].messages, LAMBDA m : get_length(m["Qty_char_emails"])),
                     SumOver(c.actors[i].messages, LAMBDA m : get_length(m["Qty_char_mentions"])),
                     Len(c.actors[i].messages) >> ],
              ActorIndex(c),
              << "Qty_char_links", "Qty_char_emails",
                 "Qty_char_mentions", "Qty_messages" >>)

actors_laminations(c, start, end) ==
    Slice(sort_values(actors_laminations_frame(c)), start, end)

by_activity_frame(c) ==
    DataFrame([ i \in DOMAIN c.actors |-> NetTextCountRow(c.actors[i].messages) ],
              ActorIndex(c),
              << "Qty_char_net", "Qty_char_text", "Qty_messages" >>)

by_activity(c, start, end) ==
    Slice(sort_values(by_activity_frame(c)), start, end)

actors_by_punctuation_marks_frame(c) ==
    DataFrame([ i \in DOMAIN c.actors |->
                  << SumOver(c.actors[i].messages, LAMBDA m : get_length(m["Qty_char_!"])),
                     SumOver(c.actors[i].messages, LAMBDA m : get_length(m["Qty_char_?"])),
                     Len(c.actors[i].messages) >> ],
              ActorIndex(c),
              << "Qty_char_!", "Qty_char_?", "Qty_messages" >>)

actors_by_punctuation_marks(c, start, end) ==
    Slice(sort_values(actors_by_punctuation_marks_frame(c)), start, end)

\* the if/elif chain of ActorsFeature.interaction_interval: the position
\* (1 super fast, 2 fast, 3 regular, 4 late) of the counter it increments
ActorInteractionClass(delta) ==
    IF TotalSecondsLeq(delta, 30) THEN 1
    ELSE IF ~TotalSecondsLeq(delta, 30) /\ TotalSecondsLeq(delta, 60) THEN 2
    ELSE IF ~TotalSecondsLeq(delta, 60) /\ TotalSecondsLeq(delta, 120) THEN 3
    ELSE 4

\* previous = chat.messages[i] (variant: the actor's own previous message,
\* the message itself when it has none)
OwnPrevious(messages, i) ==
    LET own == { k \in 1..i : messages[k].actor = messages[i + 1].actor }
    IN  IF own = {} THEN messages[i + 1]
        ELSE messages[CHOOSE k \in own : \A l \in own : l <= k]

\* previous = chat.messages[i], for message = chat.messages[1:][i]
\* (positions i and i + 1 counted from 1)
Previous(messages, i) == messages[i]

\* for i, message in enumerate(chat.messages[1:]): one actor's counters
RECURSIVE ActorTimingsLoop(_, _, _, _)
ActorTimingsLoop(messages, name, i, counts) ==
    IF i >= Len(messages) THEN counts
    ELSE IF messages[i + 1].actor # name
         THEN ActorTimingsLoop(messages, name, i + 1, counts)
         ELSE LET delta == TimeDelta(messages[i + 1].created_at,
                                     Previous(messages, i).created_at)
                  k     == ActorInteractionClass(delta)
              IN  ActorTimingsLoop(messages, name, i + 1,
                                   [ counts EXCEPT ![k] = @ + 1 ])

\* variant of actors_interaction_interval_frame: the loop runs over
\* chat.messages, whose first message is classified too, by a delta of 0
actors_interaction_interval_frame_first(c) ==
    DataFrame([ i \in DOMAIN c.actors |->
                  LET name   == c.actors[i].display_name
                      counts == ActorTimingsLoop(c.messages, name,
                                                 1, << 0, 0, 0, 0 >>)
                  IN  (IF c.messages # << >> /\ c.messages[1].actor = name
                       THEN [ counts EXCEPT ![1] = @ + 1 ]
                       ELSE counts)
                        \o << Len(c.actors[i].messages) >> ],
              ActorIndex(c),
              << "Super Fast Interactions", "Fast Interactions",
                 "Regular Interactions", "Late Interactions",
                 "Qty_messages" >>)

actors_interaction_interval_frame(c) ==
    DataFrame([ i \in DOMAIN c.actors |->
                  ActorTimingsLoop(c.messages, c.actors[i].display_name,
                                   1, << 0, 0, 0, 0 >>)
                    \o << Len(c.actors[i].messages) >> ],
              ActorIndex(c),
              << "Super Fast Interactions", "Fast Interactions",
                 "Regular Interactions", "Late Interactions",
                 "Qty_messages" >>)

actors_interaction_interval(c, start, end) ==
    Slice(sort_values(actors_interaction_interval_frame(c)), start, end)

---------------------------------------------------------------------------
(* TimeFeature                                                             *)

\* the if/elif chain of TimeFeature.get_interation_timings
InteractionClass(delta) ==
    IF TotalSecondsLeq(delta, 30) THEN 1
    ELSE IF ~TotalSecondsLeq(delta, 30) /\ TotalSecondsLeq(delta, 60) THEN 2
    ELSE IF ~TotalSecondsLeq(delta, 60) /\ TotalSecondsLeq(delta, 120) THEN 3
    ELSE 4

\* for i, message in enumerate(messages[1:]): previous = messages[i]
RECURSIVE TimingsLoop(_, _, _)
TimingsLoop(messages, i, counts) ==
    IF i >= Len(messages) THEN counts
    ELSE LET delta == TimeDelta(messages[i + 1].created_at,
                                messages[i].created_at)
             k     == InteractionClass(delta)
         IN  TimingsLoop(messages, i + 1, [ counts EXCEPT ![k] = @ + 1 ])

\* variant of get_interation_timings: enumerate(messages[2:]), the first
\* pair is skipped
get_interation_timings_skip(messages) ==
    TimingsLoop(messages, 2, << 0, 0, 0, 0 >>)

\* variant of get_interation_timings: the late count is what is left of
\* len(messages) - 1 after the three other classes
get_interation_timings_rest(messages) ==
    LET counts == TimingsLoop(messages, 1, << 0, 0, 0, 0 >>)
    IN  [ counts EXCEPT ![4] = Len(messages) - 1
                                 - counts[1] - counts[2] - counts[3] ]

get_interation_timings(messages) == TimingsLoop(messages, 1, << 0, 0, 0, 0 >>)

IntervalColumns ==
    << "Super Fast Interactions", "Fast Interactions",
       "Regular Interactions", "Late Interactions", "Qty_messages" >>

\* variant of time_interaction_interval: every message but the first of the
\* chat is classified by its delta to the message before it in the chat and
\* counted in the row of its own month
time_interaction_interval_chat(c) ==
    LET data == GroupBy(c.messages, MonthKeysRaw(c.messages))
        keys == MonthKeysRaw(c.messages)
    IN  DataFrame([ j \in DOMAIN data |->
                      [ k \in 1..4 |->
                          Cardinality({ p \in 2..Len(c.messages) :
                              /\ keys[p] = data[j].key
                              /\ InteractionClass(
                                     TimeDelta(c.messages[p].created_at,
                                               c.messages[p - 1].created_at)) = k }) ]
                        \o << Len(data[j].messages) >> ],
                  Keys(data),
                  IntervalColumns)

time_interaction_interval(c) ==
    LET data == GroupBy(c.messages, MonthKeysRaw(c.messages))
    IN  DataFrame([ j \in DOMAIN data |->
                      get_interation_timings(data[j].messages)
                        \o << Len(data[j].messages) >> ],
                  Keys(data),
                  IntervalColumns)

interaction_interval_per_weekday(c) ==
    LET data == GroupByWeekday(c.messages, WeekdayKeysRaw(c.messages))
    IN  DataFrame([ j \in DOMAIN data |->
                      get_interation_timings(data[j].messages)
                        \o << Len(data[j].messages) >> ],
                  Keys(data),
                  IntervalColumns)

---------------------------------------------------------------------------
(* EmojisFeature                                                           *)

\* emojis += len(message['Qty_char_emoji'])
per_user_frame(c) ==
    DataFrame([ i \in DOMAIN c.actors |->
                  << SumOver(c.actors[i].messages, LAMBDA m : Len(m["Qty_char_emoji"])),
                     Len(c.actors[i].messages) >> ],
              ActorIndex(c),
              << "Qty_char_emoji", "Qty_messages" >>)

per_user(c, start, end) ==
    Slice(sort_values(per_user_frame(c)), start, end)

---------------------------------------------------------------------------
(* The state machine.  chat is the loaded chat (self.chats[0]); call is    *)
(* the method being run with its keyword arguments (NoCall between two     *)
(* calls: the engine is synchronous and single-threaded); dataframe is     *)
(* the table the method has returned to the generate_chart wrapper;        *)
(* globals holds the module-level lists WEEKDAYS, PERIODS, SUB_PERIODS.    *)

NoCall == [ method |-> "none", start |-> 0, end |-> 0 ]

NoFrame == DataFrame(<< >>, << >>, << >>)

\* values given for start and for end (the defaults are 0 and 10)
Starts == { -5, -1, 0, 2 }
Ends == { -1, 1, 3, 10 }

\* a method without keyword arguments returns df and leaves the
\* module-level lists as lists
ReturnsWith(method, df, lists) ==
    /\ call = NoCall
    /\ call' = [ method |-> method, start |-> 0, end |-> 0 ]
    /\ dataframe' = df
    /\ globals' = lists
    /\ UNCHANGED chat

\* a method without keyword arguments, which only reads the module-level
\* lists, returns df
Returns(method, df) == ReturnsWith(method, df, globals)

\* a method called with start and end returns df
ReturnsSlice(method, start, end, df) ==
    /\ call = NoCall
    /\ call' = [ method |-> method, start |-> start, end |-> end ]
    /\ dataframe' = df
    /\ UNCHANGED << chat, globals >>

\* the generate_chart wrapper draws the table and returns None: the table
\* is dropped and the next call can start
Show ==
    /\ call # NoCall
    /\ call' = NoCall
    /\ dataframe' = NoFrame
    /\ UNCHANGED << chat, globals >>

PerMonth == Returns("MessagesFeature.per_month", per_month(chat))

WeekdaysPerMonth ==
    ReturnsWith("MessagesFeature.weekdays_per_month", weekdays_per_month(chat),
                [ globals EXCEPT
                    !.WEEKDAYS = CopyAppend(WEEKDAYS, "Qty_char_net").source ])

PerWeekday == Returns("MessagesFeature.per_weekday", per_weekday(chat))

MessagesFabrications ==
    Returns("MessagesFeature.fabrications", messages_fabrications(chat))

MessagesLaminations ==
    Returns("MessagesFeature.laminations", messages_laminations(chat))

ByPeriods ==
    ReturnsWith("MessagesFeature.by_periods", by_periods(chat),
                [ globals EXCEPT
                    !.PERIODS = CopyAppend(PERIODS, "Qty_messages").source ])

BySubPeriods ==
    ReturnsWith("MessagesFeature.by_sub_periods", by_sub_periods(chat),
                [ globals EXCEPT
                    !.SUB_PERIODS = CopyAppend(SUB_PERIODS, "Qty_messages").source ])

MessagesByPunctuationMarks ==
    Returns("MessagesFeature.by_punctuation_marks",
            messages_by_punctuation_marks(chat))

\* the static method, called on the whole message list; its four counts
\* are kept as the one row of a frame without index and column names
GetInterationTimings ==
    Returns("TimeFeature.get_interation_timings",
            DataFrame(<< get_interation_timings(chat.messages) >>, << >>, << >>))

TimeInteractionInterval ==
    Returns("TimeFeature.interaction_interval", time_interaction_interval(chat))

InteractionIntervalPerWeekday ==
    Returns("TimeFeature.interaction_interval_per_weekday",
            interaction_interval_per_weekday(chat))

ActorsFabrications(start, end) ==
    ReturnsSlice("ActorsFeature.fabrications", start, end,
                 actors_fabrications(chat, start, end))

ActorsLaminations(start, end) ==
    ReturnsSlice("ActorsFeature.laminations", start, end,
                 actors_laminations(chat, start, end))

ByActivity(start, end) ==
    ReturnsSlice("ActorsFeature.by_activity", start, end,
                 by_activity(chat, start, end))

ActorsByPunctuationMarks(start, end) ==
    ReturnsSlice("ActorsFeature.by_punctuation_marks", start, end,
                 actors_by_punctuation_marks(chat, start, end))

ActorsInteractionInterval(start, end) ==
    ReturnsSlice("ActorsFeature.interaction_interval", start, end,
                 actors_interaction_interval(chat, start, end))

PerUser(start, end) ==
    ReturnsSlice("EmojisFeature.per_user", start, end,
                 per_user(chat, start, end))

\* Actor tables: chats of three actors whose messages differ in their
\* counters; every ActorsFeature / EmojisFeature method, with any start, end.
Init ==
    /\ chat \in { ChatOf(ms) :
                    ms \in SeqsUpTo(MessagesOf(OneStamp, { "Ana", "Bob", "Cid" }, Bodies),
                                    MaxMsgs) }
    /\ call = NoCall
    /\ dataframe = NoFrame
    /\ globals = ModuleLists

Next ==
    \/ \E start \in Starts, end \in Ends :
        \/ ActorsFabrications(start, end)
        \/ ActorsLaminations(start, end)
        \/ ByActivity(start, end)
        \/ ActorsByPunctuationMarks(start, end)
        \/ ActorsInteractionInterval(start, end)
        \/ PerUser(start, end)
    \/ Show

Spec == Init /\ [][Next]_vars

\* Month and weekday tables: chats of one actor whose messages differ in
\* their instants, in any order; every MessagesFeature / TimeFeature method.
InitTime ==
    /\ chat \in { ChatOf(ms) :
                    ms \in SeqsUpTo(MessagesOf(Stamps, { "Ana" }, Bodies),
                                    MaxMsgs) }
    /\ call = NoCall
    /\ dataframe = NoFrame
    /\ globals = ModuleLists

NextTime ==
    \/ PerMonth
    \/ WeekdaysPerMonth
    \/ PerWeekday
    \/ MessagesFabrications
    \/ MessagesLaminations
    \/ ByPeriods
    \/ BySubPeriods
    \/ MessagesByPunctuationMarks
    \/ GetInterationTimings
    \/ TimeInteractionInterval
    \/ InteractionIntervalPerWeekday
    \/ Show

SpecTime == InitTime /\ [][NextTime]_vars

\* Interleavings: chats of two actors whose messages differ in their
\* instants, in any order; the two interval classifiers, default arguments.
InitInterleaved ==
    /\ chat \in { ChatOf(ms) :
                    ms \in SeqsUpTo(MessagesOf(NearStamps, { "Ana", "Bob" }, { PlainBody }),
                                    MaxMsgs) }
    /\ call = NoCall
    /\ dataframe = NoFrame
    /\ globals = ModuleLists

NextInterleaved ==
    \/ ActorsInteractionInterval(0, 10)
    \/ GetInterationTimings
    \/ Show

SpecInterleaved == InitInterleaved /\ [][NextInterleaved]_vars

\* the instants 09:00:00, 09:00:25 and 09:02:10 of Friday 2021-03-05, and
\* one of the month after
ScenarioStamps ==
    { DT(2021, 3, 5, 9, 0, 0, 0),
      DT(2021, 3, 5, 9, 0, 25, 0),
      DT(2021, 3, 5, 9, 2, 10, 0),
      DT(2021, 4, 1, 0, 0, 0, 0) }

\* messages whose net content is 5, 3 and 8 characters long
ScenarioBodies ==
    { PlainBody,
      [ PlainBody EXCEPT !["Qty_char_net"] = "abc" ],
      [ PlainBody EXCEPT !["Qty_char_net"] = "abcdefgh" ] }

\* Month sums: chats of one actor whose messages differ in their instants
\* and in the length of their net content; the month table, the interval
\* table and the classifier.
InitScenario ==
    /\ chat \in { ChatOf(ms) :
                    ms \in SeqsUpTo(MessagesOf(ScenarioStamps, { "Ana" },
                                               ScenarioBodies),
                                    MaxMsgs) }
    /\ call = NoCall
    /\ dataframe = NoFrame
    /\ globals = ModuleLists

NextScenario ==
    \/ PerMonth
    \/ TimeInteractionInterval
    \/ GetInterationTimings
    \/ Show

SpecScenario == InitScenario /\ [][NextScenario]_vars

\* Every method on one chat: chats of one actor out of three (the two
\* others own no message) whose messages differ in their instants, in any
\* order; all seventeen methods, the ranked ones with several start, end.
NextAll ==
    \/ PerMonth
    \/ WeekdaysPerMonth
    \/ PerWeekday
    \/ MessagesFabrications
    \/ MessagesLaminations
    \/ ByPeriods
    \/ BySubPeriods
    \/ MessagesByPunctuationMarks
    \/ GetInterationTimings
    \/ TimeInteractionInterval
    \/ InteractionIntervalPerWeekday
    \/ \E start \in { -1, 0 }, end \in { 1, 10 } :
        \/ ActorsFabrications(start, end)
        \/ ActorsLaminations(start, end)
        \/ ByActivity(start, end)
        \/ ActorsByPunctuationMarks(start, end)
        \/ ActorsInteractionInterval(start, end)
        \/ PerUser(start, end)
    \/ Show

SpecAll == InitTime /\ [][NextAll]_vars

---------------------------------------------------------------------------
(* Properties.                                                             *)

\* the row of the table whose index entry is key
RowAt(df, key) == df.rows[CHOOSE i \in DOMAIN df.index : df.index[i] = key]

\* the cell of row i under the column named column
Cell(df, i, column) ==
    df.rows[i][CHOOSE j \in DOMAIN df.columns : df.columns[j] = column]

\* position of an actor in chat.actors
ActorPosition(c, name) ==
    CHOOSE i \in DOMAIN c.actors : c.actors[i].display_name = name

\* the messages list of the actor called name
MessagesOfActor(c, name) == c.actors[ActorPosition(c, name)].messages

\* a is not earlier than b
NotBefore(a, b) == TimeDelta(a, b).days >= 0

\* the message list is timestamp-non-decreasing
NonDecreasing(messages) ==
    \A i \in 1..(Len(messages) - 1) :
        NotBefore(messages[i + 1].created_at, messages[i].created_at)

\* C1 as claimed: in ActorsFeature.interaction_interval every message of an
\* actor that has an earlier message of the same actor is classified by its
\* delta to that own previous message, so each class of the actor's row
\* counts at least the own-sequence deltas of that class (stated for
\* chronologically ordered chats).
C1_OwnPrevious ==
    (call.method = "ActorsFeature.interaction_interval"
        /\ NonDecreasing(chat.messages)) =>
        \A key \in { dataframe.index[i] : i \in DOMAIN dataframe.index } :
            LET own == MessagesOfActor(chat, key)
                row == RowAt(dataframe, key)
            IN  \A k \in 1..4 :
                    row[k] >= Cardinality({ p \in 2..Len(own) :
                        ActorInteractionClass(
                            TimeDelta(own[p].created_at, own[p - 1].created_at)) = k })

\* C1 amended: in ActorsFeature.interaction_interval every message of an
\* actor at a position after the first of chat.messages is classified by its
\* delta to the message just before it in the whole chat, whoever sent it:
\* each class of the actor's row counts exactly those deltas.
C1_ChatPrevious ==
    call.method = "ActorsFeature.interaction_interval" =>
        \A key \in { dataframe.index[i] : i \in DOMAIN dataframe.index } :
            LET msgs == chat.messages
                row  == RowAt(dataframe, key)
            IN  \A k \in 1..4 :
                    row[k] = Cardinality({ p \in 2..Len(msgs) :
                        /\ msgs[p].actor = key
                        /\ ActorInteractionClass(
                               TimeDelta(msgs[p].created_at,
                                         msgs[p - 1].created_at)) = k })

\* an interleaving where a message's own previous message and the message
\* before it in the chat are of different actors and give different classes
C1_Interleaved ==
    /\ call.method = "ActorsFeature.interaction_interval"
    /\ Len(dataframe.rows) = Len(chat.actors)
    /\ \E p \in 3..Len(chat.messages) : \E q \in 1..(p - 2) :
        LET msgs == chat.messages IN
        /\ msgs[p - 1].actor # msgs[p].actor
        /\ msgs[q].actor = msgs[p].actor
        /\ \A r \in (q + 1)..(p - 1) : msgs[r].actor # msgs[p].actor
        /\ ActorInteractionClass(TimeDelta(msgs[p].created_at, msgs[q].created_at))
             # ActorInteractionClass(TimeDelta(msgs[p].created_at, msgs[p - 1].created_at))

\* C2: in ActorsFeature.fabrications the cell under each of the columns
\* Qty_char_numbers, Qty_char_emoji, Qty_char_marks, Qty_char_laughs is the
\* total character length of the matches of that aspect in the actor's
\* messages, and the column names are pairwise distinct.
C2_FabricationsColumns ==
    call.method = "ActorsFeature.fabrications" =>
        /\ \A i, j \in DOMAIN dataframe.columns :
              dataframe.columns[i] = dataframe.columns[j] => i = j
        /\ \A i \in DOMAIN dataframe.rows :
              \A column \in { "Qty_char_numbers", "Qty_char_emoji",
                              "Qty_char_marks", "Qty_char_laughs" } :
                  Cell(dataframe, i, column)
                    = SumOver(MessagesOfActor(chat, dataframe.index[i]),
                              LAMBDA m : Len(Join(m[column])))

\* the table a method without keyword arguments returns for chat c
TableOf(method, c) ==
    CASE method = "MessagesFeature.per_month" -> per_month(c)
      [] method = "MessagesFeature.weekdays_per_month" -> weekdays_per_month(c)
      [] method = "MessagesFeature.per_weekday" -> per_weekday(c)
      [] method = "MessagesFeature.fabrications" -> messages_fabrications(c)
      [] method = "MessagesFeature.laminations" -> messages_laminations(c)
      [] method = "MessagesFeature.by_periods" -> by_periods(c)
      [] method = "MessagesFeature.by_sub_periods" -> by_sub_periods(c)
      [] method = "MessagesFeature.by_punctuation_marks" ->
            messages_by_punctuation_marks(c)
      [] method = "TimeFeature.interaction_interval" -> time_interaction_interval(c)
      [] method = "TimeFeature.interaction_interval_per_weekday" ->
            interaction_interval_per_weekday(c)

SumMethods ==
    { "MessagesFeature.per_month", "MessagesFeature.weekdays_per_month",
      "MessagesFeature.per_weekday", "MessagesFeature.fabrications",
      "MessagesFeature.laminations", "MessagesFeature.by_periods",
      "MessagesFeature.by_sub_periods", "MessagesFeature.by_punctuation_marks" }

IntervalMethods ==
    { "TimeFeature.interaction_interval",
      "TimeFeature.interaction_interval_per_weekday" }

MonthMethods ==
    (SumMethods \ { "MessagesFeature.per_weekday" })
        \cup { "TimeFeature.interaction_interval" }

\* every reordering of a message list
Reorderings(messages) ==
    { [ i \in DOMAIN messages |-> messages[perm[i]] ] :
        perm \in Permutations(DOMAIN messages) }

\* C3 as claimed: for every bucketed table, a reordering of the messages
\* that leaves the row keys in the same order leaves every row unchanged.
C3_PermutationInvariant ==
    call.method \in SumMethods \cup IntervalMethods =>
        \A ms \in Reorderings(chat.messages) :
            LET t == TableOf(call.method, ChatOf(ms))
            IN  t.index = dataframe.index => t.rows = dataframe.rows

\* C3 amended: for every MessagesFeature table such a reordering leaves
\* every row unchanged; in the interaction-interval tables of TimeFeature it
\* leaves the Qty_messages cell of every row unchanged (the four interval
\* counts depend on the order inside the bucket).
C3_SumsPermutationInvariant ==
    /\ call.method \in SumMethods =>
        \A ms \in Reorderings(chat.messages) :
            LET t == TableOf(call.method, ChatOf(ms))
            IN  t.index = dataframe.index => t.rows = dataframe.rows
    /\ call.method \in IntervalMethods =>
        \A ms \in Reorderings(chat.messages) :
            LET t == TableOf(call.method, ChatOf(ms))
            IN  t.index = dataframe.index =>
                  \A i \in DOMAIN t.rows :
                      Cell(t, i, "Qty_messages") = Cell(dataframe, i, "Qty_messages")

\* a table of two buckets whose messages can be reordered, inside a bucket
\* holding different messages, without changing the key order
C3_Reordered ==
    /\ call.method \in SumMethods
    /\ Len(dataframe.index) >= 2
    /\ \E ms \in Reorderings(chat.messages) :
          /\ ms # chat.messages
          /\ TableOf(call.method, ChatOf(ms)).index = dataframe.index
          /\ \E i, j \in DOMAIN ms :
                /\ i < j
                /\ ms[i] = chat.messages[j]
                /\ ms[j] = chat.messages[i]
                /\ StrfMonthYear(ms[i].created_at) = StrfMonthYear(ms[j].created_at)

\* C4: the weekday-bucketed tables always have exactly the seven rows
\* Sunday, Monday, ..., Saturday, in that order.
C4_WeekdayRows ==
    call.method \in { "MessagesFeature.per_weekday",
                      "TimeFeature.interaction_interval_per_weekday" } =>
        /\ dataframe.index = << "Sunday", "Monday", "Tuesday", "Wednesday",
                                "Thursday", "Friday", "Saturday" >>
        /\ Len(dataframe.rows) = 7

\* a weekday table of a chat whose first message is of a Friday and a later
\* one of a Sunday: the weekdays arrive out of order and some are missing
C4_OutOfOrder ==
    /\ call.method = "MessagesFeature.per_weekday"
    /\ Len(chat.messages) >= 2
    /\ StrfWeekday(chat.messages[1].created_at) = "Friday"
    /\ StrfWeekday(chat.messages[2].created_at) = "Sunday"
    /\ Len(dataframe.rows) = 7

\* months since year 0 of a datetime: the calendar order of its month
YearMonth(d) == d.year * 12 + d.month

\* C5: for a timestamp-non-decreasing message list the row keys of every
\* month-bucketed table are the month-year labels of the messages, each
\* once, in strictly increasing calendar order, and the messages of a
\* label form one contiguous run of the input.
C5_MonthKeysChronological ==
    (call.method \in MonthMethods /\ NonDecreasing(chat.messages)) =>
        LET msgs   == chat.messages
            labels == [ i \in DOMAIN msgs |-> StrfMonthYear(msgs[i].created_at) ]
            index  == dataframe.index
        IN  /\ { index[j] : j \in DOMAIN index } = { labels[i] : i \in DOMAIN msgs }
            /\ \A j, k \in DOMAIN index : index[j] = index[k] => j = k
            /\ \A j, k \in DOMAIN index : j < k =>
                  \A i, l \in DOMAIN msgs :
                      (labels[i] = index[j] /\ labels[l] = index[k]) =>
                          YearMonth(msgs[i].created_at) < YearMonth(msgs[l].created_at)
            /\ \A i, l \in DOMAIN msgs :
                  (i < l /\ labels[i] = labels[l]) =>
                      \A m \in i..l : labels[m] = labels[i]

\* an ordered chat of January 2021, February 2021 and January 2022
C5_ThreeMonths ==
    /\ call.method = "TimeFeature.interaction_interval"
    /\ NonDecreasing(chat.messages)
    /\ dataframe.index = << "January 2021", "February 2021", "January 2022" >>

\* C6: for a chronologically ordered list of n messages the four counts of
\* get_interation_timings are non-negative and sum to n - 1 (0 when n <= 1).
C6_TimingsPartition ==
    (call.method = "TimeFeature.get_interation_timings"
        /\ NonDecreasing(chat.messages)) =>
        LET counts == dataframe.rows[1]
            n      == Len(chat.messages)
        IN  /\ Len(counts) = 4
            /\ \A k \in 1..4 : counts[k] >= 0
            /\ SumSeq(counts) = IF n >= 2 THEN n - 1 ELSE 0

\* an ordered list of three messages whose two deltas fall in two classes
C6_TwoClasses ==
    /\ call.method = "TimeFeature.get_interation_timings"
    /\ NonDecreasing(chat.messages)
    /\ Len(chat.messages) = 3
    /\ Cardinality({ k \in 1..4 : dataframe.rows[1][k] = 1 }) = 2

\* a timedelta of s seconds and us microseconds
Seconds(s, us) == [ days |-> 0, seconds |-> s, microseconds |-> us ]

ActorMethods ==
    { "ActorsFeature.fabrications", "ActorsFeature.laminations",
      "ActorsFeature.by_activity", "ActorsFeature.by_punctuation_marks",
      "ActorsFeature.interaction_interval", "EmojisFeature.per_user" }

\* the table an actor-scoped method builds for chat c before it ranks it
ActorFrame(method, c) ==
    CASE method = "ActorsFeature.fabrications" -> actors_fabrications_frame(c)
      [] method = "ActorsFeature.laminations" -> actors_laminations_frame(c)
      [] method = "ActorsFeature.by_activity" -> by_activity_frame(c)
      [] method = "ActorsFeature.by_punctuation_marks" ->
            actors_by_punctuation_marks_frame(c)
      [] method = "ActorsFeature.interaction_interval" ->
            actors_interaction_interval_frame(c)
      [] method = "EmojisFeature.per_user" -> per_user_frame(c)

\* tuple a is greater than tuple b, compared left to right
RECURSIVE LexGreater(_, _)
LexGreater(a, b) ==
    /\ a # << >>
    /\ \/ Head(a) > Head(b)
       \/ (Head(a) = Head(b) /\ LexGreater(Tail(a), Tail(b)))

\* C8: every actor-scoped table is returned with its rows in descending
\* order of the column tuple compared left to right, and rows equal in every
\* column keep the order their actors have in chat.actors.
C8_SortedDescending ==
    call.method \in ActorMethods =>
        \A p \in 1..(Len(dataframe.rows) - 1) :
            /\ ~LexGreater(dataframe.rows[p + 1], dataframe.rows[p])
            /\ dataframe.rows[p] = dataframe.rows[p + 1] =>
                  ActorPosition(chat, dataframe.index[p])
                    < ActorPosition(chat, dataframe.index[p + 1])

\* three ranked rows: the first two tie in the first column and differ in
\* the second, the last two are equal in every column
C8_TieBreak ==
    /\ call.method = "ActorsFeature.by_activity"
    /\ Len(dataframe.rows) = 3
    /\ dataframe.rows[1][1] = dataframe.rows[2][1]
    /\ dataframe.rows[1][2] > dataframe.rows[2][2]
    /\ dataframe.rows[2] = dataframe.rows[3]
    /\ dataframe.rows[2][3] > 0

Minimum(a, b) == IF a < b THEN a ELSE b

Maximum(a, b) == IF a > b THEN a ELSE b

\* the rows of table full at the zero-based positions lo <= p < hi
RowsBetween(full, lo, hi) ==
    DataFrame(SubSeq(full.rows, lo + 1, hi),
              SubSeq(full.index, lo + 1, hi),
              full.columns)

\* C9 as claimed: for all integers start and end an actor-scoped method
\* returns the ranked rows at the positions max(0, start) <= p <
\* min(number of rows, end).
C9_ClampedBounds ==
    call.method \in ActorMethods =>
        LET full == sort_values(ActorFrame(call.method, chat))
            n    == Len(full.rows)
        IN  dataframe = RowsBetween(full, Maximum(0, call.start),
                                    Minimum(n, call.end))

\* a bound as Python's slice reads it: a negative one counts from the end
\* of the n rows, and the result is clipped to 0..n
FromEnd(x, n) == IF x >= 0 THEN Minimum(x, n) ELSE Maximum(0, n + x)

\* C9 amended: for all integers start and end an actor-scoped method returns
\* the ranked rows at the positions lo <= p < hi, where a non-negative bound
\* is clamped to the number of rows n and a negative bound x stands for
\* max(0, n + x) (it counts from the end of the table).
C9_SliceBounds ==
    call.method \in ActorMethods =>
        LET full == sort_values(ActorFrame(call.method, chat))
            n    == Len(full.rows)
        IN  dataframe = RowsBetween(full, FromEnd(call.start, n),
                                    FromEnd(call.end, n))

\* a call with start = -1 returning the last ranked row alone, which is not
\* equal to the first
C9_NegativeStart ==
    /\ call.method = "ActorsFeature.by_activity"
    /\ call.start = -1
    /\ call.end = 10
    /\ Len(dataframe.rows) = 1
    /\ dataframe.rows[1] # sort_values(by_activity_frame(chat)).rows[1]

\* C10: with start = 0 and end = the number of actors an actor-scoped method
\* returns every actor's unranked row exactly once, and ranking the returned
\* table again returns it unchanged.
C10_FullRanking ==
    (call.method \in ActorMethods /\ call.start = 0
        /\ call.end = Len(chat.actors)) =>
        LET frame == ActorFrame(call.method, chat)
        IN  /\ Len(dataframe.rows) = Len(chat.actors)
            /\ Len(dataframe.index) = Len(chat.actors)
            /\ \A a \in DOMAIN chat.actors :
                  Cardinality({ i \in DOMAIN dataframe.index :
                      dataframe.index[i] = chat.actors[a].display_name }) = 1
            /\ \A i \in DOMAIN dataframe.rows :
                  dataframe.rows[i]
                    = frame.rows[ActorPosition(chat, dataframe.index[i])]
            /\ sort_values(dataframe) = dataframe

\* a full ranking that moves the last actor of chat.actors to the top
C10_Reordered ==
    /\ call.method = "ActorsFeature.laminations"
    /\ call.start = 0
    /\ call.end = Len(chat.actors)
    /\ Len(dataframe.index) = 3
    /\ dataframe.index[1] = chat.actors[3].display_name

\* C11: in EmojisFeature.per_user the Qty_char_emoji cell of every actor is
\* the sum over the actor's messages of the total character length of the
\* message's emoji matches, as get_length computes it.
C11_EmojiCharLength ==
    call.method = "EmojisFeature.per_user" =>
        \A i \in DOMAIN dataframe.rows :
            Cell(dataframe, i, "Qty_char_emoji")
              = SumOver(MessagesOfActor(chat, dataframe.index[i]),
                        LAMBDA m : get_length(m["Qty_char_emoji"]))

WeekdayMethods ==
    { "MessagesFeature.per_weekday",
      "TimeFeature.interaction_interval_per_weekday" }

\* every cell of the row is 0
AllZero(row) == \A k \in DOMAIN row : row[k] = 0

\* C12: an empty message list gives a table without rows for every
\* month-bucketed method; every weekday-bucketed table has seven rows, and
\* the row of a weekday without message is all zero (so all seven are for an
\* empty list); in every actor-scoped table the row of an actor without
\* messages is all zero.  Every row has one cell per column.
C12_EmptyInput ==
    /\ (call.method \in MonthMethods /\ chat.messages = << >>) =>
          /\ dataframe.rows = << >>
          /\ dataframe.index = << >>
    /\ call.method \in WeekdayMethods =>
          /\ Len(dataframe.rows) = 7
          /\ \A i \in DOMAIN dataframe.rows :
                /\ Len(dataframe.rows[i]) = Len(dataframe.columns)
                /\ (\A p \in DOMAIN chat.messages :
                      StrfWeekday(chat.messages[p].created_at) # dataframe.index[i])
                    => AllZero(dataframe.rows[i])
    /\ call.method \in ActorMethods =>
          \A i \in DOMAIN dataframe.rows :
              /\ Len(dataframe.rows[i]) = Len(dataframe.columns)
              /\ MessagesOfActor(chat, dataframe.index[i]) = << >>
                    => AllZero(dataframe.rows[i])

\* a weekday interval table of messages of a Monday and a Friday only: five
\* of its seven rows are all zero, the two others are not
C12_MondayFriday ==
    /\ call.method = "TimeFeature.interaction_interval_per_weekday"
    /\ { StrfWeekday(chat.messages[p].created_at) : p \in DOMAIN chat.messages }
         = { "Monday", "Friday" }
    /\ Cardinality({ i \in DOMAIN dataframe.rows : AllZero(dataframe.rows[i]) }) = 5
    /\ ~AllZero(RowAt(dataframe, "Monday"))
    /\ ~AllZero(RowAt(dataframe, "Friday"))

\* the instants and net lengths of the messages are those of the scenario:
\* 09:00:00, 09:00:25, 09:02:10 of one day with net contents of 5, 3, 8
IsScenario(messages) ==
    /\ Len(messages) = 3
    /\ messages[1].created_at = DT(2021, 3, 5, 9, 0, 0, 0)
    /\ messages[2].created_at = DT(2021, 3, 5, 9, 0, 25, 0)
    /\ messages[3].created_at = DT(2021, 3, 5, 9, 2, 10, 0)
    /\ Len(messages[1]["Qty_char_net"]) = 5
    /\ Len(messages[2]["Qty_char_net"]) = 3
    /\ Len(messages[3]["Qty_char_net"]) = 8

\* C13: in MessagesFeature.per_month the Qty_messages cell of a row is the
\* number of chat messages whose month-year label is the row key and the
\* Qty_char_net cell is the sum of the net-content lengths of those
\* messages; the keys are distinct and the Qty_messages column sums to the
\* number of messages.  The three messages of the scenario give
\* Qty_messages = 3 and Qty_char_net = 16, and the interval counts 1, 0, 1, 0.
C13_PerMonthSums ==
    /\ call.method = "MessagesFeature.per_month" =>
        LET msgs == chat.messages
            In(key) == { p \in DOMAIN msgs :
                            StrfMonthYear(msgs[p].created_at) = key }
            net(S) == Cardinality({ <<p, q>> \in S \X (1..8) :
                            q <= Len(msgs[p]["Qty_char_net"]) })
        IN  /\ \A i, j \in DOMAIN dataframe.index :
                  dataframe.index[i] = dataframe.index[j] => i = j
            /\ \A i \in DOMAIN dataframe.rows :
                  /\ Cell(dataframe, i, "Qty_messages")
                       = Cardinality(In(dataframe.index[i]))
                  /\ Cell(dataframe, i, "Qty_char_net")
                       = net(In(dataframe.index[i]))
            /\ SumSeq([ i \in DOMAIN dataframe.rows |->
                          Cell(dataframe, i, "Qty_messages") ]) = Len(msgs)
            /\ IsScenario(msgs) =>
                  /\ Len(dataframe.rows) = 1
                  /\ Cell(dataframe, 1, "Qty_messages") = 3
                  /\ Cell(dataframe, 1, "Qty_char_net") = 16
    /\ (call.method = "TimeFeature.interaction_interval"
            /\ IsScenario(chat.messages)) =>
          /\ Len(dataframe.rows) = 1
          /\ SubSeq(dataframe.rows[1], 1, 4) = << 1, 0, 1, 0 >>

\* the month table of the scenario: one row, March 2021
C13_Scenario ==
    /\ call.method = "MessagesFeature.per_month"
    /\ IsScenario(chat.messages)
    /\ dataframe.index = << "March 2021" >>
    /\ dataframe.rows = << << 16, 15, 3 >> >>

\* the column names a table has when its method is the first call made
ColumnsOfFirstCall ==
    /\ call.method = "MessagesFeature.weekdays_per_month" =>
          dataframe.columns
            = << "Sunday", "Monday", "Tuesday", "Wednesday", "Thursday",
                 "Friday", "Saturday", "Qty_char_net" >>
    /\ call.method = "MessagesFeature.by_periods" =>
          dataframe.columns
            = << "Dawn", "Morning", "Evening", "Night", "Qty_messages" >>
    /\ call.method = "MessagesFeature.by_sub_periods" =>
          dataframe.columns
            = << "Resting", "Transport (morning)", "Work (morning)", "Lunch",
                 "Work (evening)", "Transport (evening)",
                 "Second Office Hour", "Qty_messages" >>
    /\ call.method \in WeekdayMethods =>
          dataframe.index
            = << "Sunday", "Monday", "Tuesday", "Wednesday", "Thursday",
                 "Friday", "Saturday" >>
    /\ call.method \notin { "none", "TimeFeature.get_interation_timings" } =>
          \A i \in DOMAIN dataframe.rows :
              Len(dataframe.rows[i]) = Len(dataframe.columns)

\* C14: no step of any sequence of calls changes chat.messages, chat.actors,
\* an actor's message list or a message, and after every step the
\* module-level lists WEEKDAYS, PERIODS and SUB_PERIODS are what the import
\* made them and the table returned has the shape it has as a first call.
C14_NoStateKept ==
    [][ /\ chat' = chat
        /\ globals' = ModuleLists
        /\ ColumnsOfFirstCall' ]_vars

\* by_periods has returned a table of a non-empty chat: its columns are the
\* four periods and Qty_messages, the module-level list has four entries
C14_ColumnsCopied ==
    /\ call.method = "MessagesFeature.by_periods"
    /\ chat.messages # << >>
    /\ Len(dataframe.rows) >= 1
    /\ Len(dataframe.columns) = 5
    /\ Len(PERIODS) = 4

\* C15: for a message list that is not timestamp-non-decreasing every
\* method still returns its table; the row keys of a month-bucketed table
\* are the distinct month-year labels, each once, at the position of its
\* first occurrence in the input; and every delta between consecutive
\* messages, negative ones included, is counted in exactly one of the four
\* classes: the counts are non-negative and sum to the number of pairs, for
\* the whole list and for every bucket of TimeFeature.interaction_interval.
C15_UnorderedInput ==
    ~NonDecreasing(chat.messages) =>
        LET msgs   == chat.messages
            labels == [ i \in DOMAIN msgs |-> StrfMonthYear(msgs[i].created_at) ]
            firsts == { i \in DOMAIN msgs :
                          \A j \in 1..(i - 1) : labels[j] # labels[i] }
        IN  /\ call.method \in MonthMethods =>
                /\ Len(dataframe.index) = Cardinality(firsts)
                /\ Len(dataframe.rows) = Cardinality(firsts)
                /\ \A i \in firsts :
                      dataframe.index[Cardinality({ j \in firsts : j <= i })]
                        = labels[i]
            /\ call.method = "TimeFeature.get_interation_timings" =>
                /\ \A k \in 1..4 : dataframe.rows[1][k] >= 0
                /\ SumSeq(dataframe.rows[1]) = Len(msgs) - 1
            /\ call.method = "TimeFeature.interaction_interval" =>
                \A i \in DOMAIN dataframe.rows :
                    /\ \A k \in 1..4 : dataframe.rows[i][k] >= 0
                    /\ SumSeq(SubSeq(dataframe.rows[i], 1, 4))
                         = Cardinality({ p \in DOMAIN msgs :
                              labels[p] = dataframe.index[i] }) - 1

\* January 2022 first, then two messages of January 2021 of which the
\* second is a minute earlier: the keys are not in calendar order and the
\* negative delta is counted once
C15_BackwardsInTime ==
    /\ call.method = "TimeFeature.interaction_interval"
    /\ Len(chat.messages) = 3
    /\ chat.messages[2].created_at = DT(2021, 1, 31, 23, 59, 0, 0)
    /\ chat.messages[3].created_at = DT(2021, 1, 31, 23, 58, 0, 0)
    /\ dataframe.index = << "January 2022", "January 2021" >>
    /\ dataframe.rows = << << 0, 0, 0, 0, 1 >>, << 1, 0, 0, 0, 2 >> >>

\* C16: every row of TimeFeature.interaction_interval has its four interval
\* counts summing to Qty_messages - 1, every row of
\* interaction_interval_per_weekday to max(Qty_messages - 1, 0), so the
\* counts of all rows together sum to the number of messages minus the
\* number of non-empty buckets.
C16_BucketLocalDeltas ==
    call.method \in IntervalMethods =>
        LET counts(i) == SumSeq(SubSeq(dataframe.rows[i], 1, 4))
            qty(i)    == Cell(dataframe, i, "Qty_messages")
            nonempty  == { i \in DOMAIN dataframe.rows : qty(i) > 0 }
        IN  /\ \A i \in DOMAIN dataframe.rows :
                  /\ call.method = "TimeFeature.interaction_interval" =>
                        counts(i) = qty(i) - 1
                  /\ counts(i) = Maximum(qty(i) - 1, 0)
            /\ SumSeq([ i \in DOMAIN dataframe.rows |-> counts(i) ])
                 = Len(chat.messages) - Cardinality(nonempty)

\* three ordered messages in two month buckets: one delta is counted, the
\* gap between the buckets is not
C16_GapNotCounted ==
    /\ call.method = "TimeFeature.interaction_interval"
    /\ NonDecreasing(chat.messages)
    /\ Len(chat.messages) = 3
    /\ Len(dataframe.rows) = 2
    /\ SumSeq([ i \in DOMAIN dataframe.rows |->
                  SumSeq(SubSeq(dataframe.rows[i], 1, 4)) ]) = 1
    /\ SumSeq(get_interation_timings(chat.messages)) = 2

\* sum of the four interval counts of row i of the returned table
IntervalSum(i) == SumSeq(SubSeq(dataframe.rows[i], 1, 4))

\* in ActorsFeature.interaction_interval the four counts of every actor sum
\* to the number of the actor's messages after the first message of the
\* chat, which is at most the actor's Qty_messages
ActorRowSums ==
    \A i \in DOMAIN dataframe.rows :
        /\ IntervalSum(i)
             = Cardinality({ p \in 2..Len(chat.messages) :
                   chat.messages[p].actor = dataframe.index[i] })
        /\ IntervalSum(i) <= Cell(dataframe, i, "Qty_messages")

\* C17 as claimed: the counts of every actor sum to the number of the
\* actor's messages after the first message of the chat, at most
\* Qty_messages, and the counts of all actors together sum to at most
\* len(chat.messages) - 1.
C17_AtMostAllButFirst ==
    (call.method = "ActorsFeature.interaction_interval"
        /\ Len(dataframe.rows) = Len(chat.actors)) =>
        /\ ActorRowSums
        /\ SumSeq([ i \in DOMAIN dataframe.rows |-> IntervalSum(i) ])
             <= Len(chat.messages) - 1

\* C17 amended: the counts of every actor sum to the number of the actor's
\* messages after the first message of the chat, at most Qty_messages, and
\* the counts of all actors together sum to at most
\* max(len(chat.messages) - 1, 0), which is 0 for a chat without messages.
C17_AtMostAllButFirstOrZero ==
    (call.method = "ActorsFeature.interaction_interval"
        /\ Len(dataframe.rows) = Len(chat.actors)) =>
        /\ ActorRowSums
        /\ SumSeq([ i \in DOMAIN dataframe.rows |-> IntervalSum(i) ])
             <= Maximum(Len(chat.messages) - 1, 0)

\* three messages of two actors, the first actor sending the first and the
\* last: that actor has two messages and one count, the other one and one
C17_FirstNotClassified ==
    /\ call.method = "ActorsFeature.interaction_interval"
    /\ Len(chat.messages) = 3
    /\ chat.messages[1].actor = "Ana"
    /\ chat.messages[2].actor = "Bob"
    /\ chat.messages[3].actor = "Ana"
    /\ Len(dataframe.rows) = 3
    /\ SumSeq(SubSeq(RowAt(dataframe, "Ana"), 1, 4)) = 1
    /\ RowAt(dataframe, "Ana")[5] = 2
    /\ SumSeq(SubSeq(RowAt(dataframe, "Bob"), 1, 4)) = 1

\* the table has a column called column
HasColumn(df, column) == \E j \in DOMAIN df.columns : df.columns[j] = column

\* C18: for one chat all eight month-bucketed methods return the same
\* sequence of row keys and, where two of them have a Qty_messages column,
\* the same Qty_messages per key; in weekdays_per_month the seven weekday
\* cells of a row sum to the number of messages of the row's month.
C18_SameMonthKeys ==
    call.method \in MonthMethods =>
        /\ \A method \in MonthMethods :
              LET other == TableOf(method, chat)
              IN  /\ other.index = dataframe.index
                  /\ (HasColumn(other, "Qty_messages")
                        /\ HasColumn(dataframe, "Qty_messages")) =>
                        \A i \in DOMAIN dataframe.rows :
                            Cell(other, i, "Qty_messages")
                              = Cell(dataframe, i, "Qty_messages")
        /\ call.method = "MessagesFeature.weekdays_per_month" =>
              \A i \in DOMAIN dataframe.rows :
                  SumSeq(SubSeq(dataframe.rows[i], 1, 7))
                    = Cardinality({ p \in DOMAIN chat.messages :
                          StrfMonthYear(chat.messages[p].created_at)
                            = dataframe.index[i] })

\* a weekday-per-month table of three messages of two months, the last
\* seconds of January and the first of February among them
C18_MonthBoundary ==
    /\ call.method = "MessagesFeature.weekdays_per_month"
    /\ Len(chat.messages) = 3
    /\ chat.messages[1].created_at = DT(2021, 1, 31, 23, 59, 0, 0)
    /\ chat.messages[2].created_at = DT(2021, 2, 1, 0, 0, 0, 0)
    /\ dataframe.index = << "January 2021", "February 2021" >>
    /\ SumSeq(SubSeq(dataframe.rows[2], 1, 7)) = 2
    /\ per_month(chat).rows[2][3] = 2

====
